---- MODULE Spec2Model ----
(***************************************************************************)
(* A model of ApertureMapModelTools/__core__.py: the DataField class       *)
(* (grid parsing, cell-interface topology, weighted adjacency matrix,      *)
(* point-data interpolation) and the percentile functions.                 *)
(*                                                                         *)
(* Floating-point numbers are modelled as exact rationals <<n, d>> in      *)
(* lowest terms with d > 0; not-a-number is <<0, 0>>.  Arrays are          *)
(* functions over 0-based index ranges, as in the source; Python lists     *)
(* built by append() are 1-based TLA+ sequences in append order.           *)
(***************************************************************************)
EXTENDS Integers, Sequences, FiniteSets, TLC

\* ---------------------------------------------------------------- bounds
MaxNz == 3
MaxNx == 3
\* grids of up to MaxFull cells are enumerated in full; larger grids are
\* the ones in which at most one cell differs from all the others
MaxFull == 4

\* the cell values the enumerated data files hold
CellValues == {-1, 0, 1, 2}

\* longest data list handed to the percentile functions
MaxLen == 3
MaxLine == 4
\* its elements
StatValues == {1, 2, 3}
\* the percentiles asked for
Percs == {-10, 0, 30, 50, 70, 100, 110}
\* the numbers whose percentile is asked for
Nums == {0, 1, 2, 3, 4}

\* ----------------------------------------------------------------- state
VARIABLES
    nz, nx,             \* DataField.nz, DataField.nx
    _raw_data,          \* DataField._raw_data
    data_map,           \* DataField.data_map
    data_vector,        \* DataField.data_vector
    point_data,         \* DataField.point_data
    _cell_interfaces,   \* DataField._cell_interfaces
    buffer,             \* the memory buffer behind each array attribute
    clone,              \* the DataField returned by clone(), once made
    call,               \* the last call made: its name and arguments
    ret                 \* what that call raised or returned

fieldVars == <<nz, nx, _raw_data, data_map, data_vector, point_data,
               _cell_interfaces, buffer, clone>>
vars == <<nz, nx, _raw_data, data_map, data_vector, point_data,
          _cell_interfaces, buffer, clone, call, ret>>

\* Python's None, for attributes that hold arrays
None == <<>>

\* ------------------------------------------------------------ arithmetic
RECURSIVE GCD(_, _)
GCD(a, b) == IF b = 0 THEN a ELSE GCD(b, a % b)

Abs(n) == IF n < 0 THEN -n ELSE n

\* the rational n/d (d > 0) in lowest terms
Frac(n, d) == LET g == GCD(Abs(n), d) IN <<n \div g, d \div g>>

Float(n) == <<n, 1>>
NaN == <<0, 0>>
IsNaN(a) == a[2] = 0

Mul(a, b) == IF IsNaN(a) \/ IsNaN(b) THEN NaN
             ELSE Frac(a[1] * b[1], a[2] * b[2])
Add(a, b) == IF IsNaN(a) \/ IsNaN(b) THEN NaN
             ELSE Frac(a[1] * b[2] + b[1] * a[2], a[2] * b[2])
\* a >= b
Ge(a, b) == ~IsNaN(a) /\ ~IsNaN(b) /\ a[1] * b[2] >= b[1] * a[2]
\* a > b; every comparison with not-a-number is false
Gt(a, b) == ~IsNaN(a) /\ ~IsNaN(b) /\ a[1] * b[2] > b[1] * a[2]

\* ----------------------------------------------------------------- grids
Shapes == (1..MaxNz) \X (1..MaxNx)

\* the grid [[1, 2], [3, 4]]
ScenarioGrid == [z \in 0..1 |-> [x \in 0..1 |-> Float(2*z + x + 1)]]

\* grids sp.loadtxt returns for a well-formed file of R x C numbers
Grids(R, C) ==
    IF R * C <= MaxFull
    THEN [0..R-1 -> [0..C-1 -> {Float(v) : v \in CellValues}]]
         \cup (IF R = 2 /\ C = 2 THEN {ScenarioGrid} ELSE {})
    ELSE {[z \in 0..R-1 |-> [x \in 0..C-1 |->
              IF z = sz /\ x = sx THEN Float(spot) ELSE Float(rest)]] :
          sz \in 0..R-1, sx \in 0..C-1, spot \in CellValues,
          rest \in CellValues}

\* sp.ravel: the row-major flattening of a 2-D array
Ravel(map, R, C) == [i \in 0..R*C-1 |-> map[i \div C][i % C]]

\* len(range(start, stop, step)), step > 0
RangeLen(start, stop, step) ==
    IF stop <= start THEN 0 ELSE (stop - start + step - 1) \div step

\* sp.array(list, ndmin=2): an empty list becomes an array of shape (1, 0)
Array2d(list) == IF list = <<>> THEN << <<>> >> ELSE list

\* first loop of _define_cell_interfaces ("covering right column")
RightColumnInterfaces(R, C) ==
    [k \in 1..RangeLen(C-1, (R-1)*C, C) |->
        LET iz == (C-1) + (k-1)*C IN <<iz, iz + C>>]

\* the second loop with ix running over range(nx) instead of range(nx-1)
InteriorInterfacesFullRow(R, C) ==
    [k \in 1..2*(R-1)*C |->
        LET cell == (k-1) \div 2
            iz == cell \div C
            ix == cell % C
            ib == iz*C + ix
        IN IF (k-1) % 2 = 0 THEN <<ib, ib + 1>> ELSE <<ib, ib + C>>]

\* second loop ("covering interior cells"): two appends per (iz, ix)
InteriorInterfaces(R, C) ==
    [k \in 1..2*(R-1)*(C-1) |->
        LET cell == (k-1) \div 2
            iz == cell \div (C-1)
            ix == cell % (C-1)
            ib == iz*C + ix
        IN IF (k-1) % 2 = 0 THEN <<ib, ib + 1>> ELSE <<ib, ib + C>>]

\* third loop ("covering top row")
TopRowInterfaces(R, C) ==
    [k \in 1..RangeLen((R-1)*C, R*C - 1, 1) |->
        LET ix == (R-1)*C + (k-1) IN <<ix, ix + 1>>]

_define_cell_interfaces(R, C) ==
    Array2d(RightColumnInterfaces(R, C) \o InteriorInterfaces(R, C)
            \o TopRowInterfaces(R, C))

\* ------------------------------------------------- create_adjacency_matrix
\* arr[:, c] raises IndexError when the array has no column c
HasColumn(arr, c) == \A k \in 1..Len(arr) : Len(arr[k]) > c

\* the weights without the factor 2
InterfaceWeightsNoFactor(ci, data) ==
    [k \in 1..Len(ci) |-> Mul(data[ci[k][1]], data[ci[k][2]])]

\* weights = data[ci[:, 0]]; weights = 2*weights * data[ci[:, 1]]
InterfaceWeights(ci, data) ==
    [k \in 1..Len(ci) |-> Mul(Mul(Float(2), data[ci[k][1]]), data[ci[k][2]])]

\* the mask with weights >= 0 instead of weights > 0
KeptIndicesNonNegative(weights) ==
    [k \in 1..Len(weights) |-> ~Gt(Float(0), weights[k]) /\ ~IsNaN(weights[k])]

\* indices = weights > 0
KeptIndices(weights) == [k \in 1..Len(weights) |-> Gt(weights[k], Float(0))]

\* arr[indices] for a boolean mask: the selected elements, in order
RECURSIVE Masked(_, _)
Masked(arr, mask) ==
    IF arr = <<>> THEN <<>>
    ELSE (IF Head(mask) THEN <<Head(arr)>> ELSE <<>>)
         \o Masked(Tail(arr), Tail(mask))

FirstColumn(interfaces) == [k \in 1..Len(interfaces) |-> interfaces[k][1]]
SecondColumn(interfaces) == [k \in 1..Len(interfaces) |-> interfaces[k][2]]

\* row = sp.append(interfaces[:, 0], interfaces[:, 1])
CooRow(interfaces) == FirstColumn(interfaces) \o SecondColumn(interfaces)
\* the column array appended to itself instead of mirrored
CooColNotMirrored(interfaces) ==
    SecondColumn(interfaces) \o SecondColumn(interfaces)

\* col = sp.append(interfaces[:, 1], interfaces[:, 0])
CooCol(interfaces) == SecondColumn(interfaces) \o FirstColumn(interfaces)
\* weights = sp.append(weights, weights)
CooWeights(weights) == weights \o weights

RECURSIVE SumAt(_, _, _, _, _)
SumAt(row, col, weights, p, k) ==
    IF k = 0 THEN Float(0)
    ELSE IF <<row[k], col[k]>> = p
         THEN Add(SumAt(row, col, weights, p, k-1), weights[k])
         ELSE SumAt(row, col, weights, p, k-1)

\* sprs.coo_matrix((weights, (row, col))).tocsr(): one stored entry per
\* distinct (row, col), holding the sum of the weights given for it
ToCsr(row, col, weights) ==
    [p \in {<<row[k], col[k]>> : k \in 1..Len(row)} |->
        LET first == CHOOSE k \in 1..Len(row) :
                        /\ <<row[k], col[k]>> = p
                        /\ \A j \in 1..k-1 : <<row[j], col[j]>> # p
            rest == {k \in first+1..Len(row) : <<row[k], col[k]>> = p}
        IN IF rest = {} THEN weights[first]
           ELSE SumAt(row, col, weights, p, Len(row))]

AdjacencyMatrix(ci, data) ==
    LET weights == InterfaceWeights(ci, data)
        indices == KeptIndices(weights)
        interfaces == Masked(ci, indices)
        kept == Masked(weights, indices)
    IN ToCsr(CooRow(interfaces), CooCol(interfaces), CooWeights(kept))

\* explicit `data` arguments tried besides the default: the flattened
\* vector with its first or its middle entry replaced by not-a-number
DataArgs(f) ==
    {[f.data_vector EXCEPT ![k] = NaN] : k \in {0, (f.nz * f.nx) \div 2}}

\* ------------------------------------------------------ create_point_data
\* arr[-1] on an axis of the given size
Last(size) == size - 1

Min(a, b) == IF a < b THEN a ELSE b

\* the cells of map[z0:z1, x0:x1] in row-major order; a slice stops at the
\* end of the axis when its stop index lies beyond it
Slice(map, R, C, z0, z1, x0, x1) ==
    LET rows == Min(z1, R) - z0
        cols == Min(x1, C) - x0
    IN [k \in 1..rows*cols |-> map[z0 + ((k-1) \div cols)][x0 + ((k-1) % cols)]]

RECURSIVE SumSeq(_)
SumSeq(cells) ==
    IF cells = <<>> THEN Float(0) ELSE Add(Head(cells), SumSeq(Tail(cells)))

\* a / n for a count n > 0
DivBy(a, n) == IF IsNaN(a) THEN NaN ELSE Frac(a[1], a[2] * n)

\* the sum divided by four whatever the number of cells
AverageOfFour(cells) == DivBy(SumSeq(cells), 4)

\* sp.average
Average(cells) == DivBy(SumSeq(cells), Len(cells))

\* sp.zeros((nz+1, nx+1, 4))
Zeros(R, C) == [z \in 0..R |-> [x \in 0..C |-> [c \in 0..3 |-> Float(0)]]]

\* one assignment point_data[z, x, c] = val
Write(z, x, c, val) == [z |-> z, x |-> x, c |-> c, val |-> val]

\* the corner assignments with -1 taken as the last cell of the map
CornerWritesOnMap(map, R, C) ==
    << Write(0, 0, 0, map[0][0]),
       Write(0, Last(C), 1, map[0][Last(C)]),
       Write(Last(R), Last(C), 2, map[Last(R)][Last(C)]),
       Write(Last(R), 0, 3, map[Last(R)][0]) >>

\* "setting corners of map first"
CornerWrites(map, R, C) ==
    << Write(0, 0, 0, map[0][0]),
       Write(0, Last(C+1), 1, map[0][Last(C)]),
       Write(Last(R+1), Last(C+1), 2, map[Last(R)][Last(C)]),
       Write(Last(R+1), 0, 3, map[Last(R)][0]) >>

\* the interior loop averaging map[iz:iz+2, ix:ix+1]
InteriorWritesNarrowBlock(map, R, C) ==
    [k \in 1..4*R*C |->
        LET iz == ((k-1) \div 4) \div C
            ix == ((k-1) \div 4) % C
            val == Average(Slice(map, R, C, iz, iz+2, ix, ix+1))
        IN CASE (k-1) % 4 = 0 -> Write(iz, ix, 2, val)
             [] (k-1) % 4 = 1 -> Write(iz+1, ix+1, 0, val)
             [] (k-1) % 4 = 2 -> Write(iz+1, ix, 1, val)
             [] (k-1) % 4 = 3 -> Write(iz, ix+1, 3, val)]

\* "calculating point values for the map interior": four assignments for
\* every iz in range(nz), ix in range(nx)
InteriorWrites(map, R, C) ==
    [k \in 1..4*R*C |->
        LET iz == ((k-1) \div 4) \div C
            ix == ((k-1) \div 4) % C
            val == Average(Slice(map, R, C, iz, iz+2, ix, ix+2))
        IN CASE (k-1) % 4 = 0 -> Write(iz, ix, 2, val)
             [] (k-1) % 4 = 1 -> Write(iz+1, ix+1, 0, val)
             [] (k-1) % 4 = 2 -> Write(iz+1, ix, 1, val)
             [] (k-1) % 4 = 3 -> Write(iz, ix+1, 3, val)]

\* the left/right loop taking both averages from the last column
LeftRightWritesSameColumn(map, R, C) ==
    [k \in 1..4*R |->
        LET iz == (k-1) \div 4
            right == Average(Slice(map, R, C, iz, iz+2, Last(C), Last(C)+1))
        IN CASE (k-1) % 4 = 0 -> Write(iz, 0, 3, right)
             [] (k-1) % 4 = 1 -> Write(iz+1, 0, 0, right)
             [] (k-1) % 4 = 2 -> Write(iz, Last(C+1), 2, right)
             [] (k-1) % 4 = 3 -> Write(iz+1, Last(C+1), 1, right)]

\* "handling left and right edges": four assignments for every iz
LeftRightWrites(map, R, C) ==
    [k \in 1..4*R |->
        LET iz == (k-1) \div 4
            left == Average(Slice(map, R, C, iz, iz+2, 0, 1))
            right == Average(Slice(map, R, C, iz, iz+2, Last(C), Last(C)+1))
        IN CASE (k-1) % 4 = 0 -> Write(iz, 0, 3, left)
             [] (k-1) % 4 = 1 -> Write(iz+1, 0, 0, left)
             [] (k-1) % 4 = 2 -> Write(iz, Last(C+1), 2, right)
             [] (k-1) % 4 = 3 -> Write(iz+1, Last(C+1), 1, right)]

\* the top/bottom loop running over range(nx-1)
TopBottomWritesShortLoop(map, R, C) ==
    [k \in 1..4*(C-1) |->
        LET ix == (k-1) \div 4
            top == Average(Slice(map, R, C, 0, 1, ix, ix+2))
            bottom == Average(Slice(map, R, C, Last(R), Last(R)+1, ix, ix+2))
        IN CASE (k-1) % 4 = 0 -> Write(0, ix, 1, top)
             [] (k-1) % 4 = 1 -> Write(0, ix+1, 0, top)
             [] (k-1) % 4 = 2 -> Write(Last(R+1), ix, 2, bottom)
             [] (k-1) % 4 = 3 -> Write(Last(R+1), ix+1, 3, bottom)]

\* "handling top and bottom edges": four assignments for every ix
TopBottomWrites(map, R, C) ==
    [k \in 1..4*C |->
        LET ix == (k-1) \div 4
            top == Average(Slice(map, R, C, 0, 1, ix, ix+2))
            bottom == Average(Slice(map, R, C, Last(R), Last(R)+1, ix, ix+2))
        IN CASE (k-1) % 4 = 0 -> Write(0, ix, 1, top)
             [] (k-1) % 4 = 1 -> Write(0, ix+1, 0, top)
             [] (k-1) % 4 = 2 -> Write(Last(R+1), ix, 2, bottom)
             [] (k-1) % 4 = 3 -> Write(Last(R+1), ix+1, 3, bottom)]

\* the assignments of create_point_data in program order
PointWrites(map, R, C) ==
    CornerWrites(map, R, C) \o InteriorWrites(map, R, C)
    \o LeftRightWrites(map, R, C) \o TopBottomWrites(map, R, C)

RECURSIVE ApplyWrites(_, _, _)
ApplyWrites(points, writes, k) ==
    IF k > Len(writes) THEN points
    ELSE ApplyWrites(
            [points EXCEPT ![writes[k].z][writes[k].x][writes[k].c]
                                = writes[k].val],
            writes, k + 1)

\* point_data[0:nz, 0:nx, :]
Crop(points, R, C) == [z \in 0..R-1 |-> [x \in 0..C-1 |-> points[z][x]]]

PointData(map, R, C) ==
    Crop(ApplyWrites(Zeros(R, C), PointWrites(map, R, C), 1), R, C)

\* -------------------------------------------------------------- buffers
\* the attributes of a DataField that hold arrays
ArrayAttrs ==
    {"_raw_data", "data_map", "data_vector", "point_data", "_cell_interfaces"}
\* the DataField at hand and the one clone() returned
Objects == {"self", "clone"}
\* names of array buffers: every array attribute of both objects may own one
BufferIds == 1..(Cardinality(Objects) * Cardinality(ArrayAttrs))

\* the attributes of __init__: no array behind any of them
NoBuffers == [a \in ArrayAttrs |-> 0]

\* no clone() has returned yet
NoClone ==
    [made |-> FALSE, nz |-> 0, nx |-> 0, _raw_data |-> None,
     data_map |-> None, data_vector |-> None, point_data |-> None,
     _cell_interfaces |-> None, buf |-> NoBuffers]

\* the buffers some attribute in bufs refers to
Used(bufs) == {bufs[a] : a \in ArrayAttrs} \ {0}

\* the k-th buffer a new array can take, none of `used` being free
NthFree(used, k) ==
    CHOOSE i \in BufferIds :
        /\ i \notin used
        /\ Cardinality({j \in 1..i : j \notin used}) = k

\* parse_data_file with _raw_data = self.data_map in place of its copy
ParseBuffersRawShared ==
    [_raw_data |-> 1, data_map |-> 1, data_vector |-> 1, point_data |-> 0,
     _cell_interfaces |-> 3]

\* the arrays of parse_data_file: loadtxt allocates data_map, sp.copy
\* allocates _raw_data, sp.ravel is a view of data_map, and
\* _define_cell_interfaces allocates its own
ParseBuffers ==
    [_raw_data |-> 2, data_map |-> 1, data_vector |-> 1, point_data |-> 0,
     _cell_interfaces |-> 3]

\* ---------------------------------------------------------------- Init
\* DataField.__init__ up to the call of parse_data_file
Init ==
    /\ nz = 0
    /\ nx = 0
    /\ _raw_data = None
    /\ data_map = None
    /\ data_vector = None
    /\ point_data = None
    /\ _cell_interfaces = None
    /\ buffer = NoBuffers
    /\ clone = NoClone
    /\ call = [fn |-> "__init__"]
    /\ ret = [raised |-> "none", value |-> None]

\* parse_data_file, called by __init__ on a file holding the grid `grid`
parse_data_file ==
    /\ call.fn = "__init__"
    /\ \E s \in Shapes : \E grid \in Grids(s[1], s[2]) :
        /\ data_map' = grid
        /\ _raw_data' = grid
        /\ data_vector' = Ravel(grid, s[1], s[2])
        /\ nz' = s[1]
        /\ nx' = s[2]
        /\ _cell_interfaces' = _define_cell_interfaces(s[1], s[2])
    /\ buffer' = ParseBuffers
    /\ call' = [fn |-> "parse_data_file"]
    /\ ret' = [raised |-> "none", value |-> None]
    /\ UNCHANGED <<point_data, clone>>

\* the DataField at hand as one record, like the one clone() returned
SelfObj ==
    [made |-> TRUE, nz |-> nz, nx |-> nx, _raw_data |-> _raw_data,
     data_map |-> data_map, data_vector |-> data_vector,
     point_data |-> point_data, _cell_interfaces |-> _cell_interfaces,
     buf |-> buffer]

Obj(o) == IF o = "self" THEN SelfObj ELSE clone

\* the two objects after a call: a is self, b is the clone
Becomes(a, b) ==
    /\ nz' = a.nz
    /\ nx' = a.nx
    /\ _raw_data' = a._raw_data
    /\ data_map' = a.data_map
    /\ data_vector' = a.data_vector
    /\ point_data' = a.point_data
    /\ _cell_interfaces' = a._cell_interfaces
    /\ buffer' = a.buf
    /\ clone' = b

\* create_adjacency_matrix reading the saved raw grid when data is None
DefaultDataRaw(f) == Ravel(f._raw_data, f.nz, f.nx)

\* if data is None: data = self.data_vector
DefaultData(f) == f.data_vector

\* create_adjacency_matrix(data) on self or on the clone
create_adjacency_matrix ==
    /\ call.fn # "__init__"
    /\ \E o \in Objects :
        /\ Obj(o).made
        /\ \E arg \in {None} \cup DataArgs(Obj(o)) :
            LET f == Obj(o)
                data == IF arg = None THEN DefaultData(f) ELSE arg
            IN
            /\ call' = [fn |-> "create_adjacency_matrix", obj |-> o,
                        arg |-> arg, data |-> data]
            /\ ret' = IF ~HasColumn(f._cell_interfaces, 0)
                      THEN [raised |-> "IndexError", value |-> None]
                      ELSE [raised |-> "none",
                            value |-> AdjacencyMatrix(f._cell_interfaces, data)]
    /\ UNCHANGED fieldVars

\* create_point_data() on self or on the clone: sp.zeros allocates the array
create_point_data ==
    /\ call.fn # "__init__"
    /\ \E o \in Objects :
        /\ Obj(o).made
        /\ LET f == Obj(o)
               kept == Used([f.buf EXCEPT !.point_data = 0])
                       \cup Used(Obj(CHOOSE p \in Objects : p # o).buf)
               new == [f EXCEPT !.point_data = PointData(f.data_map, f.nz, f.nx),
                                !.buf.point_data = NthFree(kept, 1)]
           IN Becomes(IF o = "self" THEN new ELSE SelfObj,
                      IF o = "clone" THEN new ELSE clone)
        /\ call' = [fn |-> "create_point_data", obj |-> o]
    /\ ret' = [raised |-> "none", value |-> None]

\* ------------------------------------------------------- threshold_data
\* a <= b; every comparison with not-a-number is false
Le(a, b) == Ge(b, a)

\* the min_value and max_value arguments tried, and repl at its default
MinValues == {None, Float(2)}
MaxValues == {None, Float(4)}
Repls == {NaN}

\* the replacement made with < and > in place of <= and >=
ReplacedStrict(v, min_value, max_value, repl) ==
    LET low == IF min_value # None /\ Gt(min_value, v) THEN repl ELSE v
    IN IF max_value # None /\ Gt(low, max_value) THEN repl ELSE low

\* one cell through data_map[data_map <= min_value] = repl and then
\* data_map[data_map >= max_value] = repl, each skipped for a None bound
Replaced(v, min_value, max_value, repl) ==
    LET low == IF min_value # None /\ Le(v, min_value) THEN repl ELSE v
    IN IF max_value # None /\ Ge(low, max_value) THEN repl ELSE low

Thresholded(map, R, C, min_value, max_value, repl) ==
    [z \in 0..R-1 |-> [x \in 0..C-1 |->
        Replaced(map[z][x], min_value, max_value, repl)]]

\* the masked assignment writes into the buffer `target`: every attribute
\* of f that is an array on that buffer shows the written grid
WriteThrough(f, target, grid) ==
    [f EXCEPT !.data_map = IF f.buf.data_map = target THEN grid ELSE @,
              !._raw_data = IF f.buf._raw_data = target THEN grid ELSE @,
              !.data_vector = IF f.buf.data_vector = target
                              THEN Ravel(grid, f.nz, f.nx) ELSE @]

\* threshold_data without its last statement
RavelViewSkipped(f) == f

\* self.data_vector = sp.ravel(self.data_map): a view of data_map's buffer
RavelView(f) ==
    [f EXCEPT !.data_vector = Ravel(f.data_map, f.nz, f.nx),
              !.buf.data_vector = f.buf.data_map]

\* the sentinels of a thresholding ahead of the graph: not-a-number and 0
Sentinels == {NaN, Float(0)}

\* threshold_data(min_value, max_value, repl) on self or on the clone, repl
\* drawn from repls
Threshold(repls) ==
    /\ call.fn # "__init__"
    /\ \E o \in Objects, min_value \in MinValues, max_value \in MaxValues,
          repl \in repls :
        /\ Obj(o).made
        /\ LET f == Obj(o)
               grid == Thresholded(f.data_map, f.nz, f.nx,
                                   min_value, max_value, repl)
               a == WriteThrough(SelfObj, f.buf.data_map, grid)
               b == WriteThrough(clone, f.buf.data_map, grid)
           IN Becomes(IF o = "self" THEN RavelView(a) ELSE a,
                      IF o = "clone" THEN RavelView(b) ELSE b)
        /\ call' = [fn |-> "threshold_data", obj |-> o,
                    min_value |-> min_value, max_value |-> max_value,
                    repl |-> repl]
    /\ ret' = [raised |-> "none", value |-> None]

threshold_data == Threshold(Repls)

\* threshold_data with either sentinel
threshold_data_sentinel == Threshold(Sentinels)

\* ---------------------------------------------------------------- clone
\* sp.copy of an attribute: a new array, the 0-d array holding None for None
Copy(v) == IF v = None THEN <<None>> ELSE v

\* copy_data and clone assigning the arrays of self instead of copies
CloneBuffersAssigned(bufs) == bufs

\* the new arrays sp.copy allocates for the clone, in the order of
\* copy_data and clone
CloneBuffers(bufs) ==
    [data_map |-> NthFree(Used(bufs), 1),
     data_vector |-> NthFree(Used(bufs), 2),
     point_data |-> NthFree(Used(bufs), 3),
     _raw_data |-> NthFree(Used(bufs), 4),
     _cell_interfaces |-> NthFree(Used(bufs), 5)]

\* clone(): a DataField(None) filled by copy_data and the two copies
DataField_clone ==
    /\ call.fn # "__init__"
    /\ clone' = [made |-> TRUE, nz |-> nz, nx |-> nx,
                 data_map |-> Copy(data_map),
                 data_vector |-> Copy(data_vector),
                 point_data |-> Copy(point_data),
                 _raw_data |-> Copy(_raw_data),
                 _cell_interfaces |-> Copy(_cell_interfaces),
                 buf |-> CloneBuffers(buffer)]
    /\ call' = [fn |-> "clone"]
    /\ ret' = [raised |-> "none", value |-> None]
    /\ UNCHANGED <<nz, nx, _raw_data, data_map, data_vector, point_data,
                   _cell_interfaces, buffer>>

Next ==
    \/ parse_data_file
    \/ create_adjacency_matrix
    \/ create_point_data

Spec == Init /\ [][Next]_vars

\* ---------------------------------------------------- percentile functions
\* list.sort(): insertion into an ascending list
RECURSIVE Insert(_, _)
Insert(v, sorted) ==
    IF sorted = <<>> THEN <<v>>
    ELSE IF v < Head(sorted) THEN <<v>> \o sorted
    ELSE <<Head(sorted)>> \o Insert(v, Tail(sorted))

RECURSIVE Sort(_)
Sort(data) ==
    IF data = <<>> THEN <<>>
    ELSE Insert(data[Len(data)], Sort(SubSeq(data, 1, Len(data) - 1)))

\* the loop of calc_percentile breaking on > instead of >=
RECURSIVE PercentileWalkStrict(_, _, _, _, _)
PercentileWalkStrict(perc, tot_vals, i, index, num_vals) ==
    IF i >= tot_vals THEN index
    ELSE IF Gt(Mul(DivBy(Float(num_vals), tot_vals), Float(100)), Float(perc))
         THEN i
         ELSE PercentileWalkStrict(perc, tot_vals, i + 1, i, num_vals + 1)

\* the loop of calc_percentile from iteration i on: the final `index`
RECURSIVE PercentileWalk(_, _, _, _, _)
PercentileWalk(perc, tot_vals, i, index, num_vals) ==
    IF i >= tot_vals THEN index
    ELSE IF Ge(Mul(DivBy(Float(num_vals), tot_vals), Float(100)), Float(perc))
         THEN i
         ELSE PercentileWalk(perc, tot_vals, i + 1, i, num_vals + 1)

\* calc_percentile(perc, data, sort); list index k is sequence index k+1
calc_percentile(perc, data, sort) ==
    LET tot_vals == Len(data)
        sorted_data == IF sort THEN Sort(data) ELSE data
        index == PercentileWalk(perc, tot_vals, 0, 0, 0)
    IN IF index >= Len(sorted_data)
       THEN [raised |-> "IndexError", value |-> None]
       ELSE [raised |-> "none", value |-> sorted_data[index + 1]]

\* the loop of calc_percentile_num breaking on >= whatever `last` is
RECURSIVE PercentileNumWalkFirst(_, _, _, _, _, _)
PercentileNumWalkFirst(num, data, sorted_data, last, i, num_vals) ==
    IF i >= Len(sorted_data) THEN num_vals
    ELSE IF data[i + 1] >= num THEN num_vals
    ELSE PercentileNumWalkFirst(num, data, sorted_data, last, i + 1,
                                num_vals + 1)

\* the loop of calc_percentile_num from iteration i on: the final num_vals;
\* it runs over range(len(sorted_data)) and compares data[i]
RECURSIVE PercentileNumWalk(_, _, _, _, _, _)
PercentileNumWalk(num, data, sorted_data, last, i, num_vals) ==
    IF i >= Len(sorted_data) THEN num_vals
    ELSE IF last /\ data[i + 1] > num THEN num_vals
    ELSE IF ~last /\ data[i + 1] >= num THEN num_vals
    ELSE PercentileNumWalk(num, data, sorted_data, last, i + 1, num_vals + 1)

\* calc_percentile_num(num, data, last, sort)
calc_percentile_num(num, data, last, sort) ==
    LET tot_vals == Len(data)
        sorted_data == IF sort THEN Sort(data) ELSE data
        num_vals == PercentileNumWalk(num, data, sorted_data, last, 0, 0)
    IN IF tot_vals = 0
       THEN [raised |-> "ZeroDivisionError", value |-> None]
       ELSE [raised |-> "none", value |-> Frac(num_vals, tot_vals)]

\* ------------------------------------------------------------ get_data_vect
\* str.lower() on the direction strings tried
Lower(s) ==
    CASE s = "X" -> "x"
      [] s = "Z" -> "z"
      [] s = "Y" -> "y"
      [] s = "XZ" -> "xz"
      [] OTHER -> s

\* arr[i] on an axis of the given size: a negative i counts from the end
PyIndex(i, size) == IF i < 0 THEN i + size ELSE i

\* the clamp testing start_id < 0 instead of start_id <= 0
ClampStartIdNegativeOnly(start_id, n) ==
    IF start_id >= n THEN n
    ELSE IF start_id < 0 THEN 1
    ELSE start_id

\* if (start_id >= n): start_id = n; elif (start_id <= 0): start_id = 1
ClampStartId(start_id, n) ==
    IF start_id >= n THEN n
    ELSE IF start_id <= 0 THEN 1
    ELSE start_id

\* data_map[r, :] and data_map[:, c]
RowOf(map, R, C, r) == [x \in 0..C-1 |-> map[PyIndex(r, R)][x]]
ColumnOf(map, R, C, c) == [z \in 0..R-1 |-> map[z][PyIndex(c, C)]]

\* get_data_vect taking every direction other than x as z
get_data_vect_ElseColumn(map, direction, start_id) ==
    LET R == Cardinality(DOMAIN map)
        C == Cardinality(DOMAIN map[0])
    IN IF Lower(direction) = "x"
       THEN [raised |-> "none",
             value |-> RowOf(map, R, C, ClampStartId(start_id, R) - 1)]
       ELSE [raised |-> "none",
             value |-> ColumnOf(map, R, C, ClampStartId(start_id, C) - 1)]

\* get_data_vect(data_map, direction, start_id)
get_data_vect(map, direction, start_id) ==
    LET R == Cardinality(DOMAIN map)
        C == Cardinality(DOMAIN map[0])
    IN IF Lower(direction) = "x"
       THEN [raised |-> "none",
             value |-> RowOf(map, R, C, ClampStartId(start_id, R) - 1)]
       ELSE IF Lower(direction) = "z"
       THEN [raised |-> "none",
             value |-> ColumnOf(map, R, C, ClampStartId(start_id, C) - 1)]
       ELSE [raised |-> "ValueError", value |-> None]

\* the grids handed to get_data_vect: cell (z, x) holds z*C + x
VectGrids ==
    {[z \in 0..s[1]-1 |-> [x \in 0..s[2]-1 |-> Float(z * s[2] + x)]] :
        s \in Shapes}
\* the directions and the 1-based indices asked for
Directions == {"x", "X", "z", "Z", "y", "Y", "xz", ""}
StartIds == (-1)..(MaxNz + MaxNx)

\* ------------------------------------------- delimiter of parse_data_file
\* a Python str value, its characters held as a sequence of one-character
\* strings; None stays apart from the empty string
Str(chars) == [str |-> chars]

\* the character class [-0-9.+eE] of pat, on the characters tried
Numeric == {"1", "e"}
\* the characters str.strip() removes
Whitespace == {" ", "\n"}
\* the characters of a first line, the line terminator apart
LineChars == {"1", "e", ",", " "}

\* the spans <<i, j, k, m>> on which pat matches: line[i..j-1] in the
\* class, the group line[j..k-1] outside it, line[k..m-1] in the class
Matches(line) ==
    {s \in (1..Len(line)) \X (1..Len(line)) \X (1..Len(line)) \X (2..Len(line)+1) :
        /\ s[1] < s[2] /\ s[2] < s[3] /\ s[3] < s[4]
        /\ \A p \in s[1]..(s[2]-1) : line[p] \in Numeric
        /\ \A p \in s[2]..(s[3]-1) : line[p] \notin Numeric
        /\ \A p \in s[3]..(s[4]-1) : line[p] \in Numeric}

\* re.search: the leftmost start, then each + as long as it can be
Search(line) ==
    IF Matches(line) = {} THEN None
    ELSE CHOOSE s \in Matches(line) : \A t \in Matches(line) :
            \/ s[1] < t[1]
            \/ s[1] = t[1] /\ s[2] > t[2]
            \/ s[1] = t[1] /\ s[2] = t[2] /\ s[3] > t[3]
            \/ s[1] = t[1] /\ s[2] = t[2] /\ s[3] = t[3] /\ s[4] >= t[4]

\* match.group(1)
Group1(line, match) == SubSeq(line, match[2], match[3] - 1)

\* strip() removing leading whitespace only
RECURSIVE StripLeading(_)
StripLeading(s) ==
    IF s = <<>> THEN s
    ELSE IF Head(s) \in Whitespace THEN StripLeading(Tail(s))
    ELSE s

\* str.strip()
RECURSIVE Strip(_)
Strip(s) ==
    IF s = <<>> THEN s
    ELSE IF Head(s) \in Whitespace THEN Strip(Tail(s))
    ELSE IF s[Len(s)] \in Whitespace THEN Strip(SubSeq(s, 1, Len(s) - 1))
    ELSE s

\* the delimiter parse_data_file hands to loadtxt, from its delim argument
\* and the first line readline() returned
delim(arg, line) ==
    IF arg # "auto" THEN [raised |-> "none", value |-> Str(<<arg>>)]
    ELSE IF Search(line) = None
    THEN [raised |-> "AttributeError", value |-> None]
    ELSE LET stripped == Strip(Group1(line, Search(line)))
         IN [raised |-> "none",
             value |-> IF stripped = <<>> THEN None ELSE Str(stripped)]

\* the first lines read: up to MaxLine characters, with or without the
\* line terminator
FirstLines ==
    UNION {{body, Append(body, "\n")} :
        body \in UNION {[1..n -> LineChars] : n \in 0..MaxLine}}
\* the delim arguments tried
DelimArgs == {"auto", ","}

\* the data lists handed to the percentile functions
DataLists == UNION {[1..n -> StatValues] : n \in 0..MaxLen}

\* a call of a percentile function about to run
StatInit ==
    /\ nz = 0
    /\ nx = 0
    /\ _raw_data = None
    /\ data_map = None
    /\ data_vector = None
    /\ point_data = None
    /\ _cell_interfaces = None
    /\ buffer = NoBuffers
    /\ clone = NoClone
    /\ \/ call \in [fn : {"calc_percentile"}, perc : Percs,
                     data : DataLists, sort : BOOLEAN]
       \/ call \in [fn : {"calc_percentile_num"}, num : Nums,
                     data : DataLists, last : BOOLEAN, sort : BOOLEAN]
       \/ call \in [fn : {"get_data_vect"}, data_map : VectGrids,
                     direction : Directions, start_id : StartIds]
       \/ call \in [fn : {"parse_data_file"}, delim : DelimArgs,
                     line : FirstLines]
    /\ ret = [raised |-> "pending", value |-> None]

RunCalcPercentile ==
    /\ call.fn = "calc_percentile"
    /\ ret.raised = "pending"
    /\ ret' = calc_percentile(call.perc, call.data, call.sort)
    /\ UNCHANGED <<fieldVars, call>>

RunCalcPercentileNum ==
    /\ call.fn = "calc_percentile_num"
    /\ ret.raised = "pending"
    /\ ret' = calc_percentile_num(call.num, call.data, call.last, call.sort)
    /\ UNCHANGED <<fieldVars, call>>

RunGetDataVect ==
    /\ call.fn = "get_data_vect"
    /\ ret.raised = "pending"
    /\ ret' = get_data_vect(call.data_map, call.direction, call.start_id)
    /\ UNCHANGED <<fieldVars, call>>

\* parse_data_file up to the delimiter it hands to loadtxt
RunParseDelimiter ==
    /\ call.fn = "parse_data_file"
    /\ ret.raised = "pending"
    /\ ret' = delim(call.delim, call.line)
    /\ UNCHANGED <<fieldVars, call>>

StatNext ==
    \/ RunParseDelimiter
    \/ RunCalcPercentile
    \/ RunCalcPercentileNum
    \/ RunGetDataVect

StatSpec == StatInit /\ [][StatNext]_vars

\* ------------------------------------------------ thresholds and clones
\* the grid of the file read: cell (z, x) holds z*C + x + 1
EditGrid(R, C) == [z \in 0..R-1 |-> [x \in 0..C-1 |-> Float(z * C + x + 1)]]

\* the shapes of the files read
EditShapes == {s \in Shapes : s[1] * s[2] <= MaxFull}

\* a DataField constructed from a file
EditInit ==
    /\ \E s \in EditShapes :
        /\ data_map = EditGrid(s[1], s[2])
        /\ _raw_data = EditGrid(s[1], s[2])
        /\ data_vector = Ravel(EditGrid(s[1], s[2]), s[1], s[2])
        /\ nz = s[1]
        /\ nx = s[2]
        /\ _cell_interfaces = _define_cell_interfaces(s[1], s[2])
    /\ point_data = None
    /\ buffer = ParseBuffers
    /\ clone = NoClone
    /\ call = [fn |-> "parse_data_file"]
    /\ ret = [raised |-> "none", value |-> None]

EditNext ==
    \/ threshold_data
    \/ DataField_clone
    \/ create_point_data

EditSpec == EditInit /\ [][EditNext]_vars

\* ------------------------------------------------- thresholds and graphs
GraphNext ==
    \/ threshold_data_sentinel
    \/ DataField_clone
    \/ create_adjacency_matrix

GraphSpec == EditInit /\ [][GraphNext]_vars

\* ============================================================== claims
\* cells a and b (row-major indices) share a horizontal or vertical edge
Adjacent(a, b) ==
    LET za == a \div nx
        xa == a % nx
        zb == b \div nx
        xb == b % nx
    IN \/ za = zb /\ Abs(xa - xb) = 1
       \/ xa = xb /\ Abs(za - zb) = 1

Cells == 0..nz*nx-1

\* the rows of _cell_interfaces that are pairs
PairRows == {k \in 1..Len(_cell_interfaces) : Len(_cell_interfaces[k]) = 2}

Parsed == call.fn # "__init__"

\* C1: the interface list of an R x C grid holds exactly R*(C-1) + C*(R-1)
\* pairs of cell indices, no unordered pair twice, and the two cells of
\* every pair are horizontal or vertical neighbours (no wrap-around).
C1_InterfaceTopology ==
    Parsed =>
        /\ Cardinality(PairRows) = nz*(nx-1) + nx*(nz-1)
        /\ \A k \in 1..Len(_cell_interfaces) :
              k \in PairRows \/ Len(_cell_interfaces[k]) = 0
        /\ \A k, j \in PairRows :
              k # j => {_cell_interfaces[k][1], _cell_interfaces[k][2]}
                       # {_cell_interfaces[j][1], _cell_interfaces[j][2]}
        /\ \A k \in PairRows :
              /\ _cell_interfaces[k][1] \in Cells
              /\ _cell_interfaces[k][2] \in Cells
              /\ Adjacent(_cell_interfaces[k][1], _cell_interfaces[k][2])

\* a parsed grid with several rows and columns, where the last cell of a
\* row and the first cell of the next one have consecutive indices
C1_Witness ==
    /\ call.fn = "parse_data_file"
    /\ nz > 1 /\ nx > 2
    /\ Len(_cell_interfaces) = nz*(nx-1) + nx*(nz-1)
    /\ \E k \in PairRows : _cell_interfaces[k] = <<nx - 1, 2*nx - 1>>

Returned ==
    /\ call.fn = "create_adjacency_matrix"
    /\ call.obj = "self"
    /\ ret.raised = "none"

\* C2: the matrix returned by create_adjacency_matrix is symmetric: an
\* entry (i, j) with weight w is stored iff (j, i) is stored with weight w.
C2_Symmetric ==
    Returned =>
        \A p \in DOMAIN ret.value :
            /\ <<p[2], p[1]>> \in DOMAIN ret.value
            /\ ret.value[<<p[2], p[1]>>] = ret.value[p]

\* a returned matrix that stores an edge between two different cells
C2_Witness ==
    /\ Returned
    /\ nz > 1 /\ nx > 1
    /\ \E p \in DOMAIN ret.value : p[1] < p[2]

\* 2 * value[a] * value[b] of the data the call worked on
Weight(a, b) == Mul(Mul(Float(2), call.data[a]), call.data[b])

\* C3: every stored entry (i, j) holds 2 * value[i] * value[j] (nothing is
\* summed across duplicates), and when every cell is 1 each of the
\* R*(C-1) + C*(R-1) interfaces is stored, in both directions, with weight 2.
C3_Weights ==
    Returned =>
        /\ \A p \in DOMAIN ret.value : ret.value[p] = Weight(p[1], p[2])
        /\ (\A a \in Cells : call.data[a] = Float(1)) =>
              /\ \A a, b \in Cells :
                    Adjacent(a, b) => /\ <<a, b>> \in DOMAIN ret.value
                                      /\ ret.value[<<a, b>>] = Float(2)
              /\ Cardinality(DOMAIN ret.value)
                    = 2 * (nz*(nx-1) + nx*(nz-1))

\* the matrix of an all-ones grid with several rows and columns
C3_Witness ==
    /\ Returned
    /\ nz > 1 /\ nx > 1
    /\ \A a \in Cells : call.data[a] = Float(1)
    /\ Cardinality(DOMAIN ret.value) = 2 * (nz*(nx-1) + nx*(nz-1))

\* C4: an interface (i, j) is stored iff 2 * value[i] * value[j] > 0: every
\* stored weight is positive and no stored edge touches a cell of value 0.
C4_KeptIffPositive ==
    Returned =>
        /\ \A a, b \in Cells :
              <<a, b>> \in DOMAIN ret.value
                <=> (Adjacent(a, b) /\ Gt(Weight(a, b), Float(0)))
        /\ \A p \in DOMAIN ret.value : Gt(ret.value[p], Float(0))
        /\ \A a \in Cells : call.data[a] = Float(0) =>
              \A p \in DOMAIN ret.value : p[1] # a /\ p[2] # a

\* a call on data with a zero cell next to a non-zero one, an interface of
\* negative weight, and an interface that is kept
C4_Witness ==
    /\ Returned
    /\ \E a, b \in Cells : /\ Adjacent(a, b)
                            /\ call.data[a] = Float(0)
                            /\ call.data[b] # Float(0)
    /\ \E a, b \in Cells : /\ Adjacent(a, b)
                            /\ Gt(Float(0), Weight(a, b))
    /\ DOMAIN ret.value # {}

PointDataMade == call.fn = "create_point_data" /\ call.obj = "self"

\* the average of the cells (z, x), (z+1, x), (z, x+1), (z+1, x+1)
Avg4(z, x) ==
    DivBy(Add(Add(data_map[z][x], data_map[z][x+1]),
              Add(data_map[z+1][x], data_map[z+1][x+1])), 4)

\* the average of two cells
Avg2(a, b) == DivBy(Add(a, b), 2)

\* the targets <<z, x, c>> of the assignments of the two edge loops
EdgeTargets ==
    LET edge == LeftRightWrites(data_map, nz, nx)
                \o TopBottomWrites(data_map, nz, nx)
    IN {<<edge[k].z, edge[k].x, edge[k].c>> : k \in 1..Len(edge)}

\* C5: for 0 <= z < R-1, 0 <= x < C-1 the slots point[z, x, 2],
\* point[z+1, x+1, 0], point[z+1, x, 1] and point[z, x+1, 3] all hold the
\* average of grid[z..z+1, x..x+1], and the edge loops assign none of them.
C5_InteriorCorners ==
    PointDataMade =>
        \A z \in 0..nz-2 : \A x \in 0..nx-2 :
            /\ point_data[z][x][2] = Avg4(z, x)
            /\ point_data[z+1][x+1][0] = Avg4(z, x)
            /\ point_data[z+1][x][1] = Avg4(z, x)
            /\ point_data[z][x+1][3] = Avg4(z, x)
            /\ {<<z, x, 2>>, <<z+1, x+1, 0>>, <<z+1, x, 1>>, <<z, x+1, 3>>}
                    \cap EdgeTargets = {}

\* point data of a grid with a 2 x 2 block whose average is none of its
\* four cells
C5_Witness ==
    /\ PointDataMade
    /\ \E z \in 0..nz-2 : \E x \in 0..nx-2 :
          /\ point_data[z][x][2] = Avg4(z, x)
          /\ \A dz, dx \in 0..1 : data_map[z+dz][x+dx] # Avg4(z, x)

\* C6: the returned R x C x 4 array holds the four field corners as plain
\* copies of the corner cells; for [[1, 2], [3, 4]] point[0, 0, 0] = 1,
\* point[1, 1, 2] = 4 and point[0, 0, 2] = 2.5.
C6_FieldCorners ==
    PointDataMade =>
        /\ DOMAIN point_data = 0..nz-1
        /\ \A z \in 0..nz-1 : DOMAIN point_data[z] = 0..nx-1
        /\ point_data[0][0][0] = data_map[0][0]
        /\ point_data[0][nx-1][1] = data_map[0][nx-1]
        /\ point_data[nz-1][nx-1][2] = data_map[nz-1][nx-1]
        /\ point_data[nz-1][0][3] = data_map[nz-1][0]
        /\ data_map = ScenarioGrid =>
              /\ point_data[0][0][0] = Float(1)
              /\ point_data[1][1][2] = Float(4)
              /\ point_data[0][0][2] = <<5, 2>>

\* point data of [[1, 2], [3, 4]]
C6_Witness ==
    /\ PointDataMade
    /\ data_map = ScenarioGrid
    /\ point_data[1][1][2] = Float(4)

\* C7: along the four borders the corner slots lying on the border hold the
\* average of the two border cells sharing that corner.
C7_BorderCorners ==
    PointDataMade =>
        /\ \A z \in 0..nz-2 :
              /\ point_data[z][0][3] = Avg2(data_map[z][0], data_map[z+1][0])
              /\ point_data[z+1][0][0] = point_data[z][0][3]
              /\ point_data[z][nx-1][2]
                    = Avg2(data_map[z][nx-1], data_map[z+1][nx-1])
              /\ point_data[z+1][nx-1][1] = point_data[z][nx-1][2]
        /\ \A x \in 0..nx-2 :
              /\ point_data[0][x][1] = Avg2(data_map[0][x], data_map[0][x+1])
              /\ point_data[0][x+1][0] = point_data[0][x][1]
              /\ point_data[nz-1][x][2]
                    = Avg2(data_map[nz-1][x], data_map[nz-1][x+1])
              /\ point_data[nz-1][x+1][3] = point_data[nz-1][x][2]

\* point data of a grid of several rows and columns whose left and right
\* border columns, and top and bottom border rows, average differently
C7_Witness ==
    /\ PointDataMade
    /\ nz > 1 /\ nx > 1
    /\ point_data[0][0][3] # point_data[0][nx-1][2]
    /\ point_data[0][0][1] # point_data[nz-1][0][2]
    /\ point_data[0][0][3] = Avg2(data_map[0][0], data_map[1][0])

\* C8: for a grid whose cells all equal k the point array has shape
\* R x C x 4 and every entry equals k.
C8_ConstantGrid ==
    PointDataMade =>
        \A k \in {data_map[0][0]} :
            (\A z \in 0..nz-1 : \A x \in 0..nx-1 : data_map[z][x] = k) =>
                /\ DOMAIN point_data = 0..nz-1
                /\ \A z \in 0..nz-1 :
                      /\ DOMAIN point_data[z] = 0..nx-1
                      /\ \A x \in 0..nx-1 :
                            /\ DOMAIN point_data[z][x] = 0..3
                            /\ \A c \in 0..3 : point_data[z][x][c] = k

\* point data of a constant non-zero grid with several rows and columns
C8_Witness ==
    /\ PointDataMade
    /\ nz > 1 /\ nx > 1
    /\ data_map[0][0] # Float(0)
    /\ \A z \in 0..nz-1 : \A x \in 0..nx-1 : data_map[z][x] = data_map[0][0]
    /\ point_data[nz-1][nx-1][0] = data_map[0][0]

\* the number of elements of data below v, and not above v
CountLess(data, v) == Cardinality({k \in 1..Len(data) : data[k] < v})
CountLessEq(data, v) == Cardinality({k \in 1..Len(data) : data[k] <= v})

\* the element at 0-based index i of data in ascending order
Nth(data, i) ==
    CHOOSE v \in {data[k] : k \in 1..Len(data)} :
        CountLess(data, v) <= i /\ i < CountLessEq(data, v)

Smallest(data) ==
    CHOOSE v \in {data[k] : k \in 1..Len(data)} :
        \A k \in 1..Len(data) : v <= data[k]
Largest(data) ==
    CHOOSE v \in {data[k] : k \in 1..Len(data)} :
        \A k \in 1..Len(data) : v >= data[k]

\* C9: with sorting, calc_percentile(p, data) returns the element of the
\* ascending data at the first 0-based index i with i/n*100 >= p, the last
\* element when there is none; so min(data) for p <= 0, max(data) for p = 100.
C9_Percentile ==
    (/\ call.fn = "calc_percentile" /\ ret.raised # "pending"
     /\ call.sort /\ Len(call.data) > 0) =>
        LET n == Len(call.data)
            hits == {i \in 0..n-1 : i * 100 >= call.perc * n}
            first == CHOOSE i \in hits : \A j \in hits : i <= j
        IN /\ ret.raised = "none"
           /\ ret.value = IF hits = {} THEN Nth(call.data, n - 1)
                          ELSE Nth(call.data, first)
           /\ call.perc <= 0 => ret.value = Smallest(call.data)
           /\ call.perc = 100 => ret.value = Largest(call.data)

\* a sorting call on data given out of order that returns an element which
\* is neither the smallest nor the largest
C9_Witness ==
    /\ call.fn = "calc_percentile" /\ ret.raised = "none"
    /\ call.sort
    /\ Len(call.data) > 2
    /\ call.data[1] > call.data[2]
    /\ ret.value # Smallest(call.data)
    /\ ret.value # Largest(call.data)

\* C10: with sorting, calc_percentile_num(x, data) returns the number of
\* elements below x (not above x when last is true) divided by n, whatever
\* the order of data, and 0 for x = min(data).
C10_PercentileNum ==
    (/\ call.fn = "calc_percentile_num" /\ ret.raised # "pending"
     /\ call.sort /\ Len(call.data) > 0) =>
        /\ ret.raised = "none"
        /\ ret.value = Frac(IF call.last THEN CountLessEq(call.data, call.num)
                            ELSE CountLess(call.data, call.num),
                            Len(call.data))
        /\ (call.num = Smallest(call.data) /\ ~call.last) =>
              ret.value = Float(0)

\* a finished call calc_percentile_num(max(data), data, last=True) on
\* pairwise distinct elements
MaxOfDistinctLast ==
    /\ call.fn = "calc_percentile_num" /\ ret.raised # "pending"
    /\ call.last
    /\ Len(call.data) > 0
    /\ \A j, k \in 1..Len(call.data) : j # k => call.data[j] # call.data[k]
    /\ call.num = Largest(call.data)

\* C11 as stated: for n pairwise distinct elements,
\* calc_percentile_num(max(data), data, last=True) returns (n-1)/n.
C11_MaxLastStated ==
    MaxOfDistinctLast =>
        ret.value = Frac(Len(call.data) - 1, Len(call.data))

\* C11: for n pairwise distinct elements,
\* calc_percentile_num(max(data), data, last=True) returns n/n = 1.
C11_MaxLast ==
    MaxOfDistinctLast => ret.raised = "none" /\ ret.value = Float(1)

\* such a call on three elements given out of order
C11_Witness ==
    /\ MaxOfDistinctLast
    /\ Len(call.data) > 2
    /\ call.data[1] > call.data[2]
    /\ ret.value = Float(1)

\* C18: calc_percentile and calc_percentile_num on zero-length data end in
\* the EmptyDatasetError condition, not in a returned value, an index error
\* or a division by zero.
C18_EmptyDataset ==
    (/\ call.fn \in {"calc_percentile", "calc_percentile_num"}
     /\ ret.raised # "pending"
     /\ Len(call.data) = 0) =>
        ret.raised = "EmptyDatasetError"

Max(a, b) == IF a > b THEN a ELSE b

VectDone == call.fn = "get_data_vect" /\ ret.raised # "pending"

\* C16: for direction 'x' in any letter case get_data_vect returns the full
\* row min(max(start_id, 1), R) - 1, for 'z' the full column
\* min(max(start_id, 1), C) - 1; no index raises an error.
C16_ClampedSlice ==
    (VectDone /\ call.direction \in {"x", "X", "z", "Z"}) =>
        LET R == Cardinality(DOMAIN call.data_map)
            C == Cardinality(DOMAIN call.data_map[0])
            r == Min(Max(call.start_id, 1), R) - 1
            c == Min(Max(call.start_id, 1), C) - 1
        IN /\ ret.raised = "none"
           /\ call.direction \in {"x", "X"} =>
                 /\ DOMAIN ret.value = 0..C-1
                 /\ \A x \in 0..C-1 : ret.value[x] = call.data_map[r][x]
           /\ call.direction \in {"z", "Z"} =>
                 /\ DOMAIN ret.value = 0..R-1
                 /\ \A z \in 0..R-1 : ret.value[z] = call.data_map[z][c]

\* a row asked for with index 0 in upper case on a grid of several rows,
\* answered with the first row
C16_Witness ==
    /\ VectDone
    /\ call.direction = "X"
    /\ call.start_id = 0
    /\ Cardinality(DOMAIN call.data_map) > 1
    /\ ret.value = call.data_map[0]

\* C20: a direction that is neither 'x' nor 'z' in any letter case raises
\* the invalid-direction error for every grid and index; nothing is returned.
C20_InvalidDirection ==
    (VectDone /\ call.direction \notin {"x", "X", "z", "Z"}) =>
        ret.raised = "ValueError" /\ ret.value = None

\* a call with direction 'y' and an in-range index that raised
C20_Witness ==
    /\ VectDone
    /\ call.direction = "y"
    /\ call.start_id = 1
    /\ ret.raised = "ValueError"

AutoDone ==
    /\ call.fn = "parse_data_file" /\ call.delim = "auto"
    /\ ret.raised # "pending"

\* line[j..k-1] is a maximal run outside the numeric class with a numeric
\* character right before and right after it
RunBetween(line, j, k) ==
    /\ 1 < j /\ j < k /\ k <= Len(line)
    /\ line[j-1] \in Numeric /\ line[k] \in Numeric
    /\ \A p \in j..(k-1) : line[p] \notin Numeric

\* the text of positions j..k-1 between its first and last character that
\* is no whitespace, None when it has none
Trimmed(line, j, k) ==
    LET solid == {p \in j..(k-1) : line[p] \notin Whitespace}
    IN IF solid = {} THEN None
       ELSE Str(SubSeq(line, CHOOSE p \in solid : \A q \in solid : p <= q,
                             CHOOSE p \in solid : \A q \in solid : p >= q))

C17_WitnessNone ==
    /\ AutoDone
    /\ call.line = <<"1", " ", "1", "\n">>
    /\ ret.raised = "none"
    /\ ret.value = None

\* C19 as stated: when the first line holds no numeric/delimiter/numeric
\* pattern, parse_data_file raises DelimiterDetectionError.
C19_DelimiterDetectionError ==
    (AutoDone /\ \A j, k \in 1..Len(call.line) : ~RunBetween(call.line, j, k))
        => ret.raised = "DelimiterDetectionError"

\* the grid `after` is `before` with exactly the cells <= min_value or
\* >= max_value of the call c replaced by its repl, a None bound
\* replacing nothing
ExactlyReplaced(before, after, R, C, c) ==
    /\ DOMAIN after = 0..R-1
    /\ \A z \in 0..R-1 :
        /\ DOMAIN after[z] = 0..C-1
        /\ \A x \in 0..C-1 :
            after[z][x] =
                IF \/ c.min_value # None /\ Le(before[z][x], c.min_value)
                   \/ c.max_value # None /\ Ge(before[z][x], c.max_value)
                THEN c.repl
                ELSE before[z][x]

C12_ThresholdStep ==
    call'.fn = "threshold_data" =>
        IF call'.obj = "self"
        THEN ExactlyReplaced(data_map, data_map', nz, nx, call')
        ELSE ExactlyReplaced(clone.data_map, clone'.data_map,
                             clone.nz, clone.nx, call')

\* C12: threshold_data(min_value, max_value, repl) replaces exactly the
\* cells <= min_value or >= max_value by repl and leaves the others as they
\* were; an omitted bound replaces nothing on its side, and with both
\* omitted the grid is unchanged.
C12_Threshold == [][C12_ThresholdStep]_vars

\* [[1,2],[3,4]] thresholded with min_value=2, max_value=4: only 3 is left
C12_Witness ==
    /\ call.fn = "threshold_data"
    /\ call.obj = "self"
    /\ call.min_value = Float(2)
    /\ call.max_value = Float(4)
    /\ call.repl = NaN
    /\ _raw_data = EditGrid(2, 2)
    /\ data_map = [z \in 0..1 |-> [x \in 0..1 |->
                      IF z = 1 /\ x = 0 THEN Float(3) ELSE NaN]]

\* the flattened vector of f is the row-major flattening of its grid
Flat(f) ==
    /\ DOMAIN f.data_vector = 0..(f.nz * f.nx - 1)
    /\ \A z \in 0..f.nz-1 : \A x \in 0..f.nx-1 :
            f.data_vector[z * f.nx + x] = f.data_map[z][x]

C13_Flat == Flat(SelfObj) /\ (clone.made => Flat(clone))

C13_ScenarioStep ==
    (/\ data_map = EditGrid(2, 2)
     /\ call'.fn = "threshold_data"
     /\ call'.obj = "self"
     /\ call'.min_value = Float(2)
     /\ call'.max_value = None)
    => {i \in DOMAIN data_vector' : data_vector'[i] = call'.repl} = {0, 1}

\* C13: after any sequence of parse_data_file, threshold_data and clone
\* operations the flattened vector of a field is the row-major flattening
\* of its grid; thresholding [[1,2],[3,4]] with min_value=2 leaves exactly
\* two sentinel entries in the vector, at indices 0 and 1.
C13_FlatVector == []C13_Flat /\ [][C13_ScenarioStep]_vars

\* the clone thresholded after self was: its vector follows its own grid
C13_Witness ==
    /\ clone.made
    /\ call.fn = "threshold_data"
    /\ call.obj = "clone"
    /\ clone.data_map # clone._raw_data
    /\ clone.data_map # data_map
    /\ data_map # _raw_data
    /\ Flat(clone)
    /\ clone.nz > 1 /\ clone.nx > 1

C14_ThresholdStep ==
    call'.fn = "threshold_data" =>
        IF call'.obj = "self"
        THEN UNCHANGED <<nz, nx, _cell_interfaces, _raw_data>>
        ELSE /\ clone'.nz = clone.nz
             /\ clone'.nx = clone.nx
             /\ clone'._cell_interfaces = clone._cell_interfaces
             /\ clone'._raw_data = clone._raw_data

\* C14: threshold_data changes only the grid and the flattened vector: nz,
\* nx, _cell_interfaces and _raw_data are after every threshold_data call
\* what they were before it, hence what they were after parsing.
C14_ThresholdFrame == [][C14_ThresholdStep]_vars

\* a second threshold_data call on a grid whose raw copy is still the
\* parsed grid
C14_Witness ==
    /\ call.fn = "threshold_data"
    /\ call.obj = "self"
    /\ nz = 2 /\ nx = 2
    /\ call.min_value = Float(2)
    /\ call.max_value = None
    /\ \A z, x \in 0..1 : IsNaN(data_map[z][x]) <=> ~(z = 1 /\ x = 0)
    /\ _raw_data = EditGrid(2, 2)
    /\ _cell_interfaces = _define_cell_interfaces(2, 2)

C15_NoSharedBuffer ==
    clone.made => Used(buffer) \cap Used(clone.buf) = {}

C15_Step ==
    /\ (clone.made /\ call'.fn \in {"threshold_data", "create_point_data"}) =>
         IF call'.obj = "self"
         THEN /\ clone'.data_map = clone.data_map
              /\ clone'.data_vector = clone.data_vector
              /\ clone'._raw_data = clone._raw_data
              /\ clone'.point_data = clone.point_data
              /\ clone'._cell_interfaces = clone._cell_interfaces
         ELSE UNCHANGED <<data_map, data_vector, _raw_data, point_data,
                          _cell_interfaces>>
    /\ call'.fn = "clone" =>
         /\ clone'.made
         /\ clone'.nx = nx
         /\ clone'.nz = nz
         /\ clone'.data_map = data_map
         /\ clone'.data_vector = data_vector
         /\ clone'._cell_interfaces = _cell_interfaces

\* C15: a field and its clone share no buffer: threshold_data and
\* create_point_data on one of them leave the grid, vector, raw data, point
\* array and topology of the other unchanged, and right after clone() the
\* clone's nx, nz, grid, vector and topology equal those of the original.
C15_NoAliasing == []C15_NoSharedBuffer /\ [][C15_Step]_vars

\* the original thresholded after the clone was taken of the parsed grid,
\* both with a point array of their own
C15_Witness ==
    /\ clone.made
    /\ call.fn = "threshold_data"
    /\ call.obj = "self"
    /\ data_map # _raw_data
    /\ clone.data_map = clone._raw_data
    /\ clone._raw_data = _raw_data
    /\ point_data # None
    /\ clone.point_data # Copy(None)
    /\ clone.point_data # point_data

\* the assignments of the run that made point_data; create_point_data
\* leaves data_map as it was
RunWrites == PointWrites(data_map, nz, nx)

\* the positions in the run w of the assignments to point_data[z, x, c]
AssignedAt(w, z, x, c) ==
    {k \in 1..Len(w) : w[k].z = z /\ w[k].x = x /\ w[k].c = c}

\* the entry lies in the extra row or column that is cropped away
Scratch(w) == w.z = nz \/ w.x = nx

\* C21: every one of the R*C*4 entries of the cropped point array is
\* assigned exactly once over the corner, interior, left/right and
\* top/bottom passes and holds the value assigned; two assignments to
\* one entry and the three non-origin corner assignments fall in the
\* scratch row or column.
C21_AssignedOnce ==
    PointDataMade =>
        LET w == RunWrites IN
        /\ \A z \in 0..nz-1 : \A x \in 0..nx-1 : \A c \in 0..3 :
            /\ Cardinality(AssignedAt(w, z, x, c)) = 1
            /\ \A k \in AssignedAt(w, z, x, c) :
                    point_data[z][x][c] = w[k].val
        /\ \A k \in 1..Len(w) :
            Cardinality(AssignedAt(w, w[k].z, w[k].x, w[k].c)) > 1
                => Scratch(w[k])
        /\ \A k \in 2..4 : Scratch(w[k])
        /\ Len(w) = 4 + 4 * nz * nx + 4 * nz + 4 * nx

\* the point array of [[1,2],[3,4]]: 16 entries, 36 assignments
C21_Witness ==
    /\ PointDataMade
    /\ nz = 2 /\ nx = 2
    /\ data_map = ScenarioGrid
    /\ LET w == RunWrites
       IN /\ Len(w) = 36
          /\ Cardinality({k \in 1..Len(w) : ~Scratch(w[k])}) = 16
    /\ point_data[1][1][0] = Frac(10, 4)

\* create_adjacency_matrix() returned a matrix for its default data
DefaultReturned ==
    /\ call.fn = "create_adjacency_matrix"
    /\ call.arg = None
    /\ ret.raised = "none"

\* the value of cell i of the grid of f, cells numbered row by row
CellOf(grid, f, i) == grid[i \div f.nx][i % f.nx]

\* cell i of f no longer holds the value parsed: threshold_data replaced it
WasReplaced(f, i) == CellOf(f.data_map, f, i) # CellOf(f._raw_data, f, i)

\* C22: a matrix built by create_adjacency_matrix with its default data
\* after threshold_data with sentinel not-a-number or 0 stores no edge
\* at a replaced cell, and every edge (i, j) it stores weighs
\* 2 * grid[i] * grid[j] of the grid as thresholded.
C22_GraphOfThresholded ==
    DefaultReturned =>
        LET f == Obj(call.obj) IN
        \A p \in DOMAIN ret.value :
            /\ ~WasReplaced(f, p[1])
            /\ ~WasReplaced(f, p[2])
            /\ ret.value[p] = Mul(Mul(Float(2), CellOf(f.data_map, f, p[1])),
                                  CellOf(f.data_map, f, p[2]))

\* the clone of [[1,2],[3,4]] thresholded to [[0,0],[3,4]]: the one edge
\* left joins cells 2 and 3 with weight 24
C22_Witness ==
    /\ DefaultReturned
    /\ call.obj = "clone"
    /\ data_map = EditGrid(2, 2)
    /\ clone.data_map =
          [z \in 0..1 |-> [x \in 0..1 |->
              IF z = 0 THEN Float(0) ELSE Float(2 * z + x + 1)]]
    /\ DOMAIN ret.value = {<<2, 3>>, <<3, 2>>}
    /\ ret.value[<<2, 3>>] = Float(24)

====
